---------------------------- MODULE Spec2Model ----------------------------
(***************************************************************************)
(* Gradient infill post-processing (CNCKitchen/GradientInfill).            *)
(*                                                                         *)
(* The Cura plug-in GradientInfill.execute (src/GradientInfill.py) as a    *)
(* state machine: one action for the configuration checks at the start of  *)
(* execute(), one action for the body of the per-line loop, one for the    *)
(* end of the run.  The stand-alone script process_gcode                  *)
(* (src/addGradientInfill.py) reads the same lines in step with the        *)
(* plug-in in the runs that compare the two: it shares the functions of    *)
(* the plug-in and writes its lines to outputFile.                         *)
(*                                                                         *)
(* Numbers.  Python floats are modelled as exact rationals.                *)
(*   - a coordinate is an integer number of 1/Res mm; the input lines all  *)
(*     lie on the X axis and the settings keep every step length on that   *)
(*     grid, so that square roots and divisions of lengths are exact, and  *)
(*     no extrusion is rounded at a tie (GridExact states both);           *)
(*   - a G-code X/Y field carries thousandths of a mm (three decimals);    *)
(*   - a G-code E field carries 1/100000 mm (five decimals); an extrusion  *)
(*     that has been computed but not yet formatted is a fraction          *)
(*     num/den of that unit;                                               *)
(*   - flows and over-speed factors are whole percents.                    *)
(*                                                                         *)
(* Text.  A G-code line is a sequence of tokens <<letter, value, sep>>,    *)
(* sep being the text between the token and the next one; two lines are    *)
(* the same text iff they are the same token sequence.  The substring      *)
(* tests of the code ("G1" in line, "E" in element) are tests for a token  *)
(* with that letter: each of them is made together with a test for G1 or   *)
(* G0, which no marker line contains.  A Python string that holds several  *)
(* lines, joined by "\n", is a sequence of lines.                          *)
(*                                                                         *)
(* Faults.  An exception of the code (ValueError, ZeroDivisionError,       *)
(* UnboundLocalError) ends the run: pc = "fault".                          *)
(***************************************************************************)
EXTENDS Integers, Sequences, FiniteSets, TLC

VARIABLES
    settings,           \* the script's settings and the host's (extruder) settings
    pc,                 \* "start" | "run" | "returned" | "aborted" | "fault"
    infill_type,        \* mfill_mode(infillpattern): 0, 1 or 2
    currentSection,     \* Section enum
    lastPosition,       \* Point2D
    perimeterSegments,  \* [def, segs]: the local is unbound until the first ;LAYER:
    current_feed,       \* [def, v]: the local is unbound until the first F in INFILL
    data,               \* the list handed to execute(): finished layers, as rewritten
    orig,               \* history: the text of the finished layers as handed over
    layer,              \* the current layer as handed over (lines read so far)
    lines,              \* the current layer's list `lines`, as mutated so far
    inInfill,           \* history: per line of `lines`, was it handled by the INFILL branch
    last,               \* history: what the last step did (the line, its index, its rewrite)
    result,             \* what execute() returned: "none" (None) | "data" | "pending"
    script,             \* process_gcode: its pc, its locals, and the section before its last line
    outputFile          \* process_gcode: what it has written, one entry (a list of lines) per
                        \* input line

vars == <<settings, pc, infill_type, currentSection, lastPosition, perimeterSegments,
          current_feed, data, orig, layer, lines, inInfill, last, result, script, outputFile>>

-----------------------------------------------------------------------------
(* Bounds of the model *)

\* the number of input lines of a program
MaxLines == 6

\* the number of input lines of a program, in the runs that vary the host's settings
MaxLinesConfig == 3

\* the number of input lines of a program, in the runs that vary the wall that is tested
MaxLinesSections == 6

\* the number of input lines of a run with gradual speed
MaxLinesSpeed == 7

\* the largest distance to the walls at which the flow multiplier is evaluated, in 1/Res mm
MaxDist == 16

-----------------------------------------------------------------------------
(* Numbers *)

\* units of length per mm: Point2D coordinates are multiples of 1/Res mm
Res == 2

Abs(x) == IF x < 0 THEN -x ELSE x

\* x ** 0.5 of a non-negative integer, rounded down (exact on perfect squares)
Sqrt(n) == CHOOSE r \in 0..n : r * r <= n /\ (r + 1) * (r + 1) > n

IsSquare(n) == Sqrt(n) * Sqrt(n) = n

\* round(num/den) to the nearest integer, ties to even (Python's round), den > 0, num >= 0
RoundHalfEven(num, den) ==
    LET q == num \div den
        r == num % den
    IN  IF 2 * r < den THEN q
        ELSE IF 2 * r > den THEN q + 1
        ELSE IF q % 2 = 0 THEN q ELSE q + 1

\* round(x, 3) of a coordinate (1/Res mm), as thousandths of a mm
Round3(x) == IF x >= 0 THEN RoundHalfEven(x * 1000, Res)
             ELSE -RoundHalfEven((-x) * 1000, Res)

\* round(e, 5) of an extrusion num/den (1/100000 mm), as 1/100000 mm
Round5(num, den) == IF num >= 0 THEN RoundHalfEven(num, den)
                    ELSE -RoundHalfEven(-num, den)

\* float(text) of an X/Y field (thousandths of a mm), as 1/Res mm
ParseCoord(v) == (v * Res) \div 1000

-----------------------------------------------------------------------------
(* Section and Infill enums *)

NOTHING == "NOTHING"
INNER_WALL == "INNER_WALL"
OUTER_WALL == "OUTER_WALL"
INFILL == "INFILL"
Section == {NOTHING, INNER_WALL, OUTER_WALL, INFILL}

SMALL_SEGMENTS == 1
LINEAR == 2

\* Point2D(-10000, -10000), the position before the first move
Sentinel == <<-10000 * Res, -10000 * Res>>

Segment(p1, p2) == [point1 |-> p1, point2 |-> p2]

-----------------------------------------------------------------------------
(* Geometry *)

\* dist(segment, point): the fault is the division by float(norm) = 0
distFaults(segment) ==
    LET px == segment.point2[1] - segment.point1[1]
        py == segment.point2[2] - segment.point1[2]
    IN  px * px + py * py = 0

\* dist(segment, point), squared; u is the fraction dot/norm
dist2(segment, point) ==
    LET px == segment.point2[1] - segment.point1[1]
        py == segment.point2[2] - segment.point1[2]
        norm == px * px + py * py
        dot == (point[1] - segment.point1[1]) * px + (point[2] - segment.point1[2]) * py
        \* u > 1: u = 1; u < 0: u = 0; u * px and u * py
        upx == IF dot > norm THEN px ELSE IF dot < 0 THEN 0 ELSE (dot * px) \div norm
        upy == IF dot > norm THEN py ELSE IF dot < 0 THEN 0 ELSE (dot * py) \div norm
        x == segment.point1[1] + upx
        y == segment.point1[2] + upy
        dx == x - point[1]
        dy == y - point[2]
    IN  dx * dx + dy * dy

dist(segment, point) == Sqrt(dist2(segment, point))

get_points_distance(point1, point2) ==
    Sqrt((point1[1] - point2[1]) * (point1[1] - point2[1])
         + (point1[2] - point2[2]) * (point1[2] - point2[2]))

\* the midpoint of a segment; coordinates are even multiples of 1/Res mm
middlePoint(segment) ==
    << (segment.point1[1] + segment.point2[1]) \div 2,
       (segment.point1[2] + segment.point2[2]) \div 2 >>

SeqMin(s) == CHOOSE m \in {s[i] : i \in 1..Len(s)} : \A i \in 1..Len(s) : m <= s[i]

\* min_distance_from_segment(segment, segments); min() of no distance is a ValueError,
\* a zero-length element of segments a ZeroDivisionError
min_distance_faults(segment, segments) ==
    \/ Len(segments) = 0
    \/ \E i \in 1..Len(segments) : distFaults(segments[i])

min_distance_from_segment(segment, segments) ==
    SeqMin([i \in 1..Len(segments) |-> dist(segments[i], middlePoint(segment))])

\* mapRange with the target range taken in the wrong direction
mapRangeNum_rising(a1, a2, maxp, minp, s) == maxp * (a2 - a1) + (s - a1) * (maxp - minp)

\* mapRange((a1, a2), (b1, b2), s) with b1 = maxp/100 and b2 = minp/100, as the
\* fraction mapRangeNum / mapRangeDen
mapRangeNum(a1, a2, maxp, minp, s) == maxp * (a2 - a1) + (s - a1) * (minp - maxp)
mapRangeDen(a1, a2) == 100 * (a2 - a1)


-----------------------------------------------------------------------------
(* G-code text *)

\* a line of canonical text: tokens separated by one space, none after the last
\* (a token is <<letter, value, the text that follows it>>)
Line(toks) ==
    [i \in 1..Len(toks) |-> <<toks[i][1], toks[i][2], IF i < Len(toks) THEN " " ELSE "">>]

\* `letter in line`
Has(line, l) == \E i \in 1..Len(line) : line[i][1] = l

\* the value of the first field with that letter (re.search)
FirstVal(line, l) ==
    line[CHOOSE i \in 1..Len(line) : line[i][1] = l /\ \A j \in 1..(i - 1) : line[j][1] # l][2]

\* the value of the last field with that letter (the for loop keeps the last)
LastVal(line, l) ==
    line[CHOOSE i \in 1..Len(line) :
            line[i][1] = l /\ \A j \in (i + 1)..Len(line) : line[j][1] # l][2]

\* the position of the first field with that letter
IndexOfLetter(line, l) ==
    CHOOSE i \in 1..Len(line) : line[i][1] = l /\ \A j \in 1..(i - 1) : line[j][1] # l

StartsWith(line, l) == Len(line) > 0 /\ line[1][1] = l

\* the letters of comment tokens: the tokens that contain ";"
CommentLetters == {";LAYER:", ";TYPE:WALL-INNER", ";TYPE:WALL-OUTER", ";TYPE:FILL",
                   ";TYPE:SKIN", ";"}

HasSemicolon(line) == \E i \in 1..Len(line) : line[i][1] \in CommentLetters

is_begin_layer_line(line) == StartsWith(line, ";LAYER:")
is_begin_inner_wall_line(line) == StartsWith(line, ";TYPE:WALL-INNER")
is_begin_outer_wall_line(line) == StartsWith(line, ";TYPE:WALL-OUTER")
is_begin_infill_segment_line(line) == StartsWith(line, ";TYPE:FILL")

is_extrusion_line(line) ==
    Has(line, "G1") /\ Has(line, "X") /\ Has(line, "Y") /\ Has(line, "E")

\* getXY: the patterns X(\d*\.?\d*) and Y(\d*\.?\d*) match no sign, so a negative
\* coordinate yields the empty string and float("") raises ValueError
getXYFaults(line) == FirstVal(line, "X") < 0 \/ FirstVal(line, "Y") < 0

getXY(line) == <<ParseCoord(FirstVal(line, "X")), ParseCoord(FirstVal(line, "Y"))>>

\* get_extrusion_command(x, y, extrusion) + stringFeed; feed < 0: no feed field
get_extrusion_command(x, y, num, den, feed) ==
    Line(<< <<"G1", 0>>, <<"X", Round3(x)>>, <<"Y", Round3(y)>>, <<"E", Round5(num, den)>> >>
         \o (IF feed >= 0 THEN << <<"F", feed>> >> ELSE <<>>))

\* mfill_mode without the line that takes cubicsubdiv out of the linear patterns
mfill_mode_cubicsubdiv(Mode) ==
    IF Mode \in {"grid", "lines", "triangles", "trihexagon", "cubic", "cubicsubdiv",
                 "tetrahedral", "quarter_cubic"} THEN 2
    ELSE IF Mode \in {"cross", "cross_3d", "gyroid"} THEN 1
    ELSE 0

\* mfill_mode(Mode)
mfill_mode(Mode) ==
    CASE Mode = "grid" -> 2
      [] Mode = "lines" -> 2
      [] Mode = "triangles" -> 2
      [] Mode = "trihexagon" -> 2
      [] Mode = "cubic" -> 2
      [] Mode = "cubicsubdiv" -> 0
      [] Mode = "tetrahedral" -> 2
      [] Mode = "quarter_cubic" -> 2
      [] Mode = "concentric" -> 0
      [] Mode = "zigzag" -> 0
      [] Mode = "cross" -> 1
      [] Mode = "cross_3d" -> 1
      [] Mode = "gyroid" -> 1
      [] OTHER -> 0


-----------------------------------------------------------------------------
(* The body of the per-line loop of execute() *)

\* gradient_thickness, as 1/Res mm
Thickness(cfg) == cfg.gradient_thickness * Res

\* gradientDiscretizationLength = gradient_thickness / gradient_discretization
gradientDiscretizationLength(cfg) == Thickness(cfg) \div cfg.gradient_discretization

\* the two clamps of segmentFeed = sn/sd into
\* [current_feed * min_over_speed_factor, current_feed * max_over_speed_factor]
ClampFeed(cfg, F, sn, sd) ==
    LET a == IF sn * 100 > F * cfg.max_over_speed * sd
             THEN <<F * cfg.max_over_speed, 100>> ELSE <<sn, sd>>
    IN  IF a[1] * 100 < F * cfg.min_over_speed * a[2]
        THEN <<F * cfg.min_over_speed, 100>> ELSE a

\* the lower clamp alone (the closing sub-move)
ClampFeedLow(cfg, F, sn, sd) ==
    IF sn * 100 < F * cfg.min_over_speed * sd
    THEN <<F * cfg.min_over_speed, 100>> ELSE <<sn, sd>>

\* " F{}".format(int(segmentFeed)) when gradual_speed, no field (-1) otherwise
FeedField(cfg, f) == IF cfg.gradual_speed THEN f[1] \div f[2] ELSE -1

\* a stepped sub-move whose extrusion is not divided by segmentSteps
SteppedSub_whole_extrusion(cfg, F, shortestDistance, to, e, segmentLength) ==
    LET T == Thickness(cfg)
        near == shortestDistance < T
        fnum == IF near THEN mapRangeNum(0, T, cfg.max_flow, cfg.min_flow, shortestDistance)
                ELSE cfg.min_flow * T
    IN  [kind |-> "step", x |-> to[1], y |-> to[2], dist |-> shortestDistance,
         fnum |-> fnum, fden |-> mapRangeDen(0, T),
         num |-> e * segmentLength * fnum,
         den |-> segmentLength * mapRangeDen(0, T),
         feed |-> -1]

\* a stepped sub-move that takes max_flow where the walls are at gradient_thickness or more
SteppedSub_far_max(cfg, F, shortestDistance, to, e, segmentLength) ==
    LET T == Thickness(cfg)
        near == shortestDistance < T
        fnum == IF near THEN mapRangeNum(0, T, cfg.max_flow, cfg.min_flow, shortestDistance)
                ELSE cfg.max_flow * T
    IN  [kind |-> "step", x |-> to[1], y |-> to[2], dist |-> shortestDistance,
         fnum |-> fnum, fden |-> mapRangeDen(0, T),
         num |-> e * gradientDiscretizationLength(cfg) * fnum,
         den |-> segmentLength * mapRangeDen(0, T),
         feed |-> -1]

\* a stepped sub-move whose extrusion is extrusionLength / int(segmentSteps) * multiplier
SteppedSub_floor_steps(cfg, F, shortestDistance, to, e, segmentLength) ==
    LET T == Thickness(cfg)
        near == shortestDistance < T
        fnum == IF near THEN mapRangeNum(0, T, cfg.max_flow, cfg.min_flow, shortestDistance)
                ELSE cfg.min_flow * T
    IN  [kind |-> "step", x |-> to[1], y |-> to[2], dist |-> shortestDistance,
         fnum |-> fnum, fden |-> mapRangeDen(0, T),
         num |-> e * fnum,
         den |-> (segmentLength \div gradientDiscretizationLength(cfg)) * mapRangeDen(0, T),
         feed |-> -1]

\* lines 511-538, one pass of `for step in range(int(segmentSteps))`: the sub-move that
\* ends at `to`, at shortestDistance from the walls; e is extrusionLength, F current_feed
SteppedSub(cfg, F, shortestDistance, to, e, segmentLength) ==
    LET T == Thickness(cfg)
        near == shortestDistance < T
        \* the flow multiplier fnum / fden
        fnum == IF near THEN mapRangeNum(0, T, cfg.max_flow, cfg.min_flow, shortestDistance)
                ELSE cfg.min_flow * T
        feed == IF near THEN ClampFeed(cfg, F, F * mapRangeDen(0, T), fnum)
                ELSE IF cfg.min_flow > 0 THEN ClampFeed(cfg, F, F * 100, cfg.min_flow)
                ELSE ClampFeed(cfg, F, F * cfg.max_over_speed, 100)
    IN  [kind |-> "step", x |-> to[1], y |-> to[2], dist |-> shortestDistance,
         fnum |-> fnum, fden |-> mapRangeDen(0, T),
         \* segmentExtrusion = extrusionLength / segmentSteps * multiplier
         num |-> e * gradientDiscretizationLength(cfg) * fnum,
         den |-> segmentLength * mapRangeDen(0, T),
         feed |-> FeedField(cfg, feed)]

\* the closing sub-move without segmentLengthRatio
ClosingSub_no_ratio(cfg, F, from, to, e, segmentLength) ==
    [kind |-> "closing", x |-> to[1], y |-> to[2], dist |-> 0,
     fnum |-> cfg.max_flow * Thickness(cfg), fden |-> mapRangeDen(0, Thickness(cfg)),
     num |-> segmentLength * e * cfg.max_flow * Thickness(cfg),
     den |-> segmentLength * mapRangeDen(0, Thickness(cfg)),
     feed |-> FeedField(cfg, ClampFeedLow(cfg, F, F * 100, cfg.max_flow))]

\* the closing sub-move at min_flow, the flow of a piece far from the walls
ClosingSub_min_flow(cfg, F, from, to, e, segmentLength) ==
    [kind |-> "closing", x |-> to[1], y |-> to[2], dist |-> 0,
     fnum |-> cfg.min_flow * Thickness(cfg), fden |-> mapRangeDen(0, Thickness(cfg)),
     num |-> get_points_distance(from, to) * e * cfg.min_flow * Thickness(cfg),
     den |-> segmentLength * mapRangeDen(0, Thickness(cfg)),
     feed |-> FeedField(cfg, ClampFeedLow(cfg, F, F * 100, cfg.max_flow))]

\* lines 540-548, the closing sub-move ("MissingSegment"), from the last stepped end
\* to currentPosition
ClosingSub(cfg, F, from, to, e, segmentLength) ==
    [kind |-> "closing", x |-> to[1], y |-> to[2], dist |-> 0,
     fnum |-> cfg.max_flow * Thickness(cfg), fden |-> mapRangeDen(0, Thickness(cfg)),
     \* segmentLengthRatio * extrusionLength * max_flow / 100
     num |-> get_points_distance(from, to) * e * cfg.max_flow * Thickness(cfg),
     den |-> segmentLength * mapRangeDen(0, Thickness(cfg)),
     feed |-> FeedField(cfg, ClampFeedLow(cfg, F, F * 100, cfg.max_flow))]

SubLine(sub) == get_extrusion_command(sub.x, sub.y, sub.num, sub.den, sub.feed)

\* new_Line = "G1 F{}\n".format(current_feed): a line of its own before the rest
FeedPrefix(line) ==
    IF Has(line, "F") /\ Has(line, "G1")
    THEN << Line(<< <<"G1", 0>>, <<"F", FirstVal(line, "F")>> >>) >>
    ELSE <<>>

\* for element in splitLine: "E" + str(round(value, 5)) [+ extra] for an E field,
\* element + " " for any other
ReplaceE(line, num, den, extra) ==
    [i \in 1..Len(line) |->
        IF line[i][1] = "E" THEN <<"E", Round5(line[i][2] * num, den), extra>>
        ELSE <<line[i][1], line[i][2], " ">>]

NoRewrite == [wrote |-> FALSE, entry |-> <<>>, subs |-> <<>>, fault |-> FALSE]

RewriteFault == [wrote |-> FALSE, entry |-> <<>>, subs |-> <<>>, fault |-> TRUE]

\* lines[line_index] = new_Line: the feed line, then one line per sub-move
Subdivided(line, subs) ==
    [wrote |-> TRUE, fault |-> FALSE, subs |-> subs,
     entry |-> FeedPrefix(line) \o [k \in 1..Len(subs) |-> SubLine(subs[k])]]

\* lines 509-550, segmentSteps >= 2
\* (faults: perimeterSegments unbound, min() of no segment, a zero-length wall segment,
\*  current_feed unbound, a flow multiplier of zero as divisor)
Subdivide(cfg, st, line, currentPosition, e, segmentLength, segmentDirection) ==
    LET steps == segmentLength \div gradientDiscretizationLength(cfg)
        segmentEnd(k) == << st.lastPosition[1] + k * segmentDirection[1],
                            st.lastPosition[2] + k * segmentDirection[2] >>
        shortestDistance(k) ==
            min_distance_from_segment(Segment(segmentEnd(k - 1), segmentEnd(k)),
                                      st.perimeterSegments.segs)
    IN  IF \/ ~st.perimeterSegments.def
           \/ min_distance_faults(Segment(st.lastPosition, currentPosition),
                                  st.perimeterSegments.segs)
           \/ ~st.current_feed.def
           \/ \E k \in 1..steps :
                 /\ shortestDistance(k) < Thickness(cfg)
                 /\ mapRangeNum(0, Thickness(cfg), cfg.max_flow, cfg.min_flow,
                                shortestDistance(k)) = 0
           \/ cfg.max_flow = 0
        THEN RewriteFault
        ELSE Subdivided(line,
                 [k \in 1..(steps + 1) |->
                     IF k <= steps
                     THEN SteppedSub(cfg, st.current_feed.v, shortestDistance(k),
                                     segmentEnd(k), e, segmentLength)
                     ELSE ClosingSub(cfg, st.current_feed.v, segmentEnd(steps),
                                     currentPosition, e, segmentLength)])

\* lines 500-567 with the sub-moves starting at three steps instead of two
LinearMove_from_three_steps(cfg, st, line, currentPosition, extrusionLength, segmentLength) ==
    IF segmentLength = 0
    THEN RewriteFault
    ELSE IF segmentLength >= 3 * gradientDiscretizationLength(cfg)
    THEN Subdivide(cfg, st, line, currentPosition, extrusionLength, segmentLength,
             << ((currentPosition[1] - st.lastPosition[1]) * gradientDiscretizationLength(cfg))
                    \div segmentLength,
                ((currentPosition[2] - st.lastPosition[2]) * gradientDiscretizationLength(cfg))
                    \div segmentLength >>)
    ELSE [wrote |-> TRUE, fault |-> FALSE,
          subs |-> << [kind |-> "short", x |-> currentPosition[1], y |-> currentPosition[2],
                       dist |-> 0, fnum |-> cfg.link_flow, fden |-> 100,
                       num |-> extrusionLength * cfg.link_flow, den |-> 100, feed |-> -1] >>,
          entry |-> << ReplaceE(line, cfg.link_flow, 100, "") >>]

\* lines 500-567 once currentPosition, extrusionLength and segmentLength are known
LinearMove(cfg, st, line, currentPosition, extrusionLength, segmentLength) ==
    IF segmentLength = 0
    THEN \* extrusionLength / segmentSteps: ZeroDivisionError
         RewriteFault
    ELSE IF segmentLength >= 2 * gradientDiscretizationLength(cfg)
    THEN Subdivide(cfg, st, line, currentPosition, extrusionLength, segmentLength,
             << ((currentPosition[1] - st.lastPosition[1]) * gradientDiscretizationLength(cfg))
                    \div segmentLength,
                ((currentPosition[2] - st.lastPosition[2]) * gradientDiscretizationLength(cfg))
                    \div segmentLength >>)
    ELSE \* lines 552-561: the fields of the line, E scaled by link_flow
         [wrote |-> TRUE, fault |-> FALSE,
          subs |-> << [kind |-> "short", x |-> currentPosition[1], y |-> currentPosition[2],
                       dist |-> 0, fnum |-> cfg.link_flow, fden |-> 100,
                       num |-> extrusionLength * cfg.link_flow, den |-> 100, feed |-> -1] >>,
          entry |-> << ReplaceE(line, cfg.link_flow, 100, "") >>]

\* infill_type == 2 (LINEAR): lines 500-567
LinearRewrite(cfg, st, line) ==
    LinearMove(cfg, st, line, getXY(line), LastVal(line, "E"),
               get_points_distance(st.lastPosition, getXY(line)))

\* the text of the rewritten line: " F.." follows the E field when the line has no F
SmallLine(line, fnum, fden, addFeed, feed) ==
    IF addFeed
    THEN [i \in 1..(Len(line) + 1) |->
            IF i <= IndexOfLetter(line, "E") THEN ReplaceE(line, fnum, fden, " ")[i]
            ELSE IF i = IndexOfLetter(line, "E") + 1 THEN <<"F", feed, "">>
            ELSE ReplaceE(line, fnum, fden, " ")[i - 1]]
    ELSE ReplaceE(line, fnum, fden, "")

\* lines 575-597 once shortestDistance is known
SmallMove(cfg, st, line, currentPosition, shortestDistance) ==
    LET T == Thickness(cfg)
        fnum == mapRangeNum(0, T, cfg.max_flow, cfg.min_flow, shortestDistance)
        F == st.current_feed.v
        \* if not " F" in outPutLine and gradual_speed
        addFeed == cfg.gradual_speed /\ ~Has(line, "F")
    IN  IF shortestDistance < T
        THEN IF ~st.current_feed.def \/ fnum = 0
             THEN RewriteFault
             ELSE [wrote |-> TRUE, fault |-> FALSE,
                   subs |-> << [kind |-> "small", x |-> currentPosition[1],
                                y |-> currentPosition[2], dist |-> shortestDistance,
                                fnum |-> fnum, fden |-> mapRangeDen(0, T),
                                num |-> LastVal(line, "E") * fnum, den |-> mapRangeDen(0, T),
                                feed |-> IF addFeed
                                         THEN FeedField(cfg, ClampFeed(cfg, F, F * mapRangeDen(0, T), fnum))
                                         ELSE -1] >>,
                   entry |-> FeedPrefix(line) \o
                             << SmallLine(line, fnum, mapRangeDen(0, T), addFeed,
                                    FeedField(cfg, ClampFeed(cfg, F, F * mapRangeDen(0, T), fnum))) >>]
        ELSE NoRewrite

\* infill_type == 1 (SMALL_SEGMENTS): lines 573-597
SmallRewrite(cfg, st, line) ==
    IF \/ ~st.perimeterSegments.def
       \/ min_distance_faults(Segment(st.lastPosition, getXY(line)), st.perimeterSegments.segs)
    THEN RewriteFault
    ELSE SmallMove(cfg, st, line, getXY(line),
                   min_distance_from_segment(Segment(st.lastPosition, getXY(line)),
                                             st.perimeterSegments.segs))

\* lines 462-464 alone: the outer-wall marker is not looked at
SectionAt_inner_only(st, line) ==
    IF is_begin_inner_wall_line(line) THEN INNER_WALL ELSE st.currentSection

\* lines 462-468: the wall markers
SectionAt(st, line) ==
    IF is_begin_outer_wall_line(line) THEN OUTER_WALL
    ELSE IF is_begin_inner_wall_line(line) THEN INNER_WALL
    ELSE st.currentSection

\* the collector without the setting that selects the wall
Collects_any_wall(cfg, st, line) ==
    /\ SectionAt(st, line) \in {INNER_WALL, OUTER_WALL}
    /\ is_extrusion_line(line)

\* lines 470-476: the line is a wall extrusion of the kind that is collected
Collects(cfg, st, line) ==
    /\ \/ SectionAt(st, line) = INNER_WALL /\ ~cfg.test_outer_wall
       \/ SectionAt(st, line) = OUTER_WALL /\ cfg.test_outer_wall
    /\ is_extrusion_line(line)

\* lines 459-476: the layer marker, the wall markers, the collector
\* (fault: perimeterSegments unbound, or getXY on a negative coordinate)
CollectFaults(cfg, st, line) ==
    /\ Collects(cfg, st, line)
    /\ \/ ~(st.perimeterSegments.def \/ is_begin_layer_line(line))
       \/ getXYFaults(line)

Collect(cfg, st, line) ==
    [st EXCEPT !.currentSection = SectionAt(st, line),
               !.perimeterSegments =
                   IF is_begin_layer_line(line) THEN [def |-> TRUE, segs |-> <<>>]
                   ELSE IF Collects(cfg, st, line)
                   THEN [@ EXCEPT !.segs = Append(@, Segment(getXY(line), st.lastPosition))]
                   ELSE @]

\* lines 485-493: the feed rate of a G1 line with an F field
SetFeed(st, line) ==
    IF Has(line, "F") /\ Has(line, "G1")
    THEN [st EXCEPT !.current_feed = [def |-> TRUE, v |-> FirstVal(line, "F")]]
    ELSE st

\* lines 495-597: the rewrite of an extrusion move
Rewrite(cfg, type, st, line) ==
    IF ~(Has(line, "E") /\ Has(line, "G1") /\ Has(line, "X") /\ Has(line, "Y")) THEN NoRewrite
    ELSE IF getXYFaults(line) THEN RewriteFault
    ELSE IF type = LINEAR THEN LinearRewrite(cfg, st, line)
    ELSE IF type = SMALL_SEGMENTS THEN SmallRewrite(cfg, st, line)
    ELSE NoRewrite

\* lines 601-603: a line with a ";" ends the infill section and is put back as it was
InfillResult(st, line, rw) ==
    [fault |-> rw.fault,
     st |-> IF HasSemicolon(line) THEN [st EXCEPT !.currentSection = NOTHING] ELSE st,
     wrote |-> rw.wrote \/ HasSemicolon(line),
     entry |-> IF HasSemicolon(line) THEN <<line>> ELSE rw.entry,
     rewrote |-> rw.wrote,
     subs |-> rw.subs]

\* lines 485-603: the INFILL branch, on the state left by the collector
InfillBranch(cfg, type, st, line) ==
    InfillResult(SetFeed(st, line), line, Rewrite(cfg, type, SetFeed(st, line), line))

\* lines 607-608 for G1 lines alone
UpdatePosition_g1_only(st, line) ==
    IF Has(line, "X") /\ Has(line, "Y") /\ Has(line, "G1")
    THEN [st EXCEPT !.lastPosition = getXY(line)]
    ELSE st

\* lines 607-608
UpdatePosition(st, line) ==
    IF Has(line, "X") /\ Has(line, "Y") /\ (Has(line, "G1") \/ Has(line, "G0"))
    THEN [st EXCEPT !.lastPosition = getXY(line)]
    ELSE st

UpdatePositionFaults(line) ==
    Has(line, "X") /\ Has(line, "Y") /\ (Has(line, "G1") \/ Has(line, "G0")) /\ getXYFaults(line)

\* the outcome of a line that the INFILL branch does not handle
Untouched(st) ==
    [fault |-> FALSE, st |-> st, wrote |-> FALSE, entry |-> <<>>, rewrote |-> FALSE,
     subs |-> <<>>, infill |-> FALSE]

Faulted(st, infill) == [Untouched(st) EXCEPT !.fault = TRUE, !.infill = infill]

\* the outcome of a line that the INFILL branch has handled (b), with lines 607-608
AfterInfill(st, line, b) ==
    IF b.fault \/ UpdatePositionFaults(line)
    THEN Faulted(st, TRUE)
    ELSE [fault |-> FALSE, st |-> UpdatePosition(b.st, line), wrote |-> b.wrote,
          entry |-> b.entry, rewrote |-> b.rewrote, subs |-> b.subs, infill |-> TRUE]

\* lines 478-608, on the state st1 left by the collector
AfterCollect(cfg, type, st1, line) ==
    IF is_begin_infill_segment_line(line)
    THEN \* len(perimeterSegments) is logged first; then `continue`
         IF ~st1.perimeterSegments.def THEN Faulted(st1, FALSE)
         ELSE Untouched([st1 EXCEPT !.currentSection = INFILL])
    ELSE IF st1.currentSection = INFILL
    THEN AfterInfill(st1, line, InfillBranch(cfg, type, st1, line))
    ELSE IF UpdatePositionFaults(line) THEN Faulted(st1, FALSE)
    ELSE Untouched(UpdatePosition(st1, line))

\* the whole body of `for currentLine in lines` for one line (lines 455-608)
HandleLine(cfg, type, st, line) ==
    IF CollectFaults(cfg, st, line) THEN Faulted(st, FALSE)
    ELSE AfterCollect(cfg, type, Collect(cfg, st, line), line)

-----------------------------------------------------------------------------
(* The stand-alone script: the body of the loop of process_gcode *)

\* the arguments of process_gcode, as settings of the plug-in: max_flow stands where the
\* plug-in has link_flow, no feed is computed, the inner wall is the one collected
\* (the flows of the runs are above zero: the plug-in's divisions of the feed by a flow,
\* which the script does not have, do not fault)
ScriptSettings(cfg) ==
    [cfg EXCEPT !.link_flow = cfg.max_flow, !.gradual_speed = FALSE, !.test_outer_wall = FALSE]

is_end_inner_wall_line(line) == StartsWith(line, ";TYPE:WALL-OUTER")

\* lines 239-249: the layer marker, the inner-wall marker, the collector, and the
\* outer-wall marker, which ends the inner wall
ScriptCollect(cfg, st, line) ==
    [Collect(cfg, st, line) EXCEPT
        !.currentSection = IF is_end_inner_wall_line(line) THEN NOTHING ELSE @]

\* lines 257-338 and 346-347: "G1 F{}\n" for a G1 line with an F field, then the lines of
\* the rewrite rw, or the line itself when nothing was written in its place
ScriptWritten(line, rw) ==
    FeedPrefix(line) \o
        (IF rw.wrote
         THEN SubSeq(rw.entry, Len(rw.entry) - Len(rw.subs) + 1, Len(rw.entry))
         ELSE <<line>>)

\* an exception; what the pass had written before it is not kept
ScriptFaulted(st) == [fault |-> TRUE, st |-> st, written |-> <<>>]

\* lines 256-347 in the section INFILL, rw being the rewrite of the line
ScriptInfill(st1, line, rw) ==
    IF rw.fault \/ UpdatePositionFaults(line)
    THEN ScriptFaulted(st1)
    ELSE [fault |-> FALSE,
          st |-> UpdatePosition(
                     [st1 EXCEPT !.currentSection = IF HasSemicolon(line) THEN NOTHING ELSE @],
                     line),
          written |-> ScriptWritten(line, rw)]

\* lines 251-347, on the state st1 left by the collector
ScriptAfterCollect(cfg, type, st1, line) ==
    IF is_begin_infill_segment_line(line)
    THEN [fault |-> FALSE, st |-> [st1 EXCEPT !.currentSection = INFILL], written |-> <<line>>]
    ELSE IF st1.currentSection = INFILL
    THEN ScriptInfill(st1, line, Rewrite(cfg, type, st1, line))
    ELSE IF UpdatePositionFaults(line) THEN ScriptFaulted(st1)
    ELSE [fault |-> FALSE, st |-> UpdatePosition(st1, line), written |-> <<line>>]

\* the whole body of `for currentLine in gcodeFile` for one line (lines 237-347)
process_gcode_line(cfg, type, st, line) ==
    IF CollectFaults(cfg, st, line) THEN ScriptFaulted(st)
    ELSE ScriptAfterCollect(cfg, type, ScriptCollect(cfg, st, line), line)

-----------------------------------------------------------------------------
(* Lists *)

\* list.index(x): the first position that holds x; Len + 1 when x is the element
\* that follows the ones in s (the element being iterated)
IndexOf(s, x) ==
    IF \E i \in 1..Len(s) : s[i] = x
    THEN CHOOSE i \in 1..Len(s) : s[i] = x /\ \A j \in 1..(i - 1) : s[j] # x
    ELSE Len(s) + 1

\* "\n".join(lines): the lines of every element, in order
RECURSIVE Join(_)
Join(s) == IF s = <<>> THEN <<>> ELSE Head(s) \o Join(Tail(s))


-----------------------------------------------------------------------------
(* Inputs: the settings and the catalogue of input lines *)

Settings(T, D, maxp, minp, linkp, gs, maxos, minos, outer, pattern, rel, ibw, conn) ==
    [gradient_thickness |-> T, gradient_discretization |-> D,
     max_flow |-> maxp, min_flow |-> minp, link_flow |-> linkp,
     gradual_speed |-> gs, max_over_speed |-> maxos, min_over_speed |-> minos,
     test_outer_wall |-> outer,
     infillpattern |-> pattern, relativeextrusion |-> rel,
     infillbeforewalls |-> ibw, connectinfill |-> conn]

\* the script's own settings are given as <<thickness mm, discretization, max flow %,
\* min flow %, short-distance flow %, gradual speed, max over-speed %, min over-speed %,
\* test with outer wall>>
SettingsOf(s, pattern, rel, ibw, conn) ==
    Settings(s[1], s[2], s[3], s[4], s[5], s[6], s[7], s[8], s[9], pattern, rel, ibw, conn)

\* the names mfill_mode knows, and one it does not
PatternNames == {"grid", "lines", "triangles", "trihexagon", "cubic", "cubicsubdiv",
                 "tetrahedral", "quarter_cubic", "concentric", "zigzag", "cross",
                 "cross_3d", "gyroid", "honeycomb"}

\* the settings of the runs that process lines, with the pattern that selects the
\* infill kind:
\*   a gradient of 2 mm in steps of 2 mm, flows from 200 % down to 50 %;
\*   a gradient of 2 mm in steps of 1 mm, every flow at 100 %;
\*   a gradient of 2 mm in steps of 2 mm, only the short-distance flow off 100 %;
\*   a gradient of 3 mm, flows from 200 % down to 50 %
RunSettings ==
    { << <<2, 1, 200, 50, 200, FALSE, 200, 60, FALSE>>, "lines" >>,
      << <<2, 1, 200, 50, 200, FALSE, 200, 60, FALSE>>, "gyroid" >>,
      << <<2, 2, 100, 100, 100, FALSE, 200, 60, FALSE>>, "lines" >>,
      << <<2, 2, 100, 100, 100, FALSE, 200, 60, FALSE>>, "gyroid" >>,
      << <<2, 1, 100, 100, 150, FALSE, 200, 60, FALSE>>, "lines" >>,
      << <<3, 1, 200, 50, 200, FALSE, 200, 60, FALSE>>, "gyroid" >> }

\* the input lines a program is made of
LAYER == Line(<< <<";LAYER:", 0>> >>)
WALL_INNER == Line(<< <<";TYPE:WALL-INNER", 0>> >>)
WALL_OUTER == Line(<< <<";TYPE:WALL-OUTER", 0>> >>)
FILL == Line(<< <<";TYPE:FILL", 0>> >>)
SKIN == Line(<< <<";TYPE:SKIN", 0>> >>)
TravelTo(x) == Line(<< <<"G0", 0>>, <<"X", x>>, <<"Y", 0>> >>)
ExtrudeTo(x, e) == Line(<< <<"G1", 0>>, <<"X", x>>, <<"Y", 0>>, <<"E", e>> >>)
FeedExtrudeTo(f, x, e) == Line(<< <<"G1", 0>>, <<"F", f>>, <<"X", x>>, <<"Y", 0>>, <<"E", e>> >>)
CommentedExtrudeTo(x, e) ==
    Line(<< <<"G1", 0>>, <<"X", x>>, <<"Y", 0>>, <<"E", e>>, <<";", 0>> >>)
CommentedFeedExtrudeTo(f, x, e) ==
    Line(<< <<"G1", 0>>, <<"F", f>>, <<"X", x>>, <<"Y", 0>>, <<"E", e>>, <<";", 0>> >>)

\* G0 X0 Y0 | G1 X2 Y0 E0.001 | G1 F1200 X7 Y0 E0.00104 | G0 X-1 Y0
P0 == TravelTo(0)
W2 == ExtrudeTo(2000, 100)
X7 == FeedExtrudeTo(1200, 7000, 104)
N1 == TravelTo(-1000)
\* G1 F1200 X7 Y0 E0.00104 ;
CX7 == CommentedFeedExtrudeTo(1200, 7000, 104)
\* G1 F1200 X7 Y0 Z0.3 E0.00104
ZX7 == Line(<< <<"G1", 0>>, <<"F", 1200>>, <<"X", 7000>>, <<"Y", 0>>, <<"Z", 300>>, <<"E", 104>> >>)

Catalogue == {LAYER, WALL_INNER, FILL, P0, W2, X7}

CatalogueAbort == {LAYER, FILL, P0, W2, N1}

CatalogueConfig == {LAYER, FILL, P0, W2}

CatalogueScript == {LAYER, WALL_INNER, FILL, P0, W2, CX7}

CatalogueSections == {LAYER, WALL_INNER, WALL_OUTER, FILL, SKIN, P0, W2}

CatalogueTokens == {LAYER, WALL_INNER, FILL, P0, W2, ZX7}

CatalogueSpeed == {LAYER, WALL_INNER, FILL, P0, W2, X7}

-----------------------------------------------------------------------------
(* The state machine *)

ParserState ==
    [currentSection |-> currentSection, lastPosition |-> lastPosition,
     perimeterSegments |-> perimeterSegments, current_feed |-> current_feed]

NoStep == [op |-> "none", line |-> <<>>, own |-> 0, idx |-> 0, from |-> Sentinel,
           section |-> NOTHING, segs |-> [def |-> FALSE, segs |-> <<>>],
           infill |-> FALSE, wrote |-> FALSE, rewrote |-> FALSE,
           entry |-> <<>>, subs |-> <<>>, closed |-> 0, final_lines |-> <<>>]

\* the state at the call of execute(data)
InitState ==
    /\ pc = "start"
    /\ infill_type = -1
    /\ currentSection = NOTHING
    /\ lastPosition = Sentinel
    /\ perimeterSegments = [def |-> FALSE, segs |-> <<>>]
    /\ current_feed = [def |-> FALSE, v |-> 0]
    /\ data = <<>>
    /\ orig = <<>>
    /\ layer = <<>>
    /\ lines = <<>>
    /\ inInfill = <<>>
    /\ last = NoStep
    /\ result = "pending"
    /\ script = [pc |-> "run", currentSection |-> NOTHING, lastPosition |-> Sentinel,
                 perimeterSegments |-> [def |-> FALSE, segs |-> <<>>], section |-> NOTHING]
    /\ outputFile = <<>>

Init ==
    /\ settings \in { SettingsOf(r[1], r[2], TRUE, FALSE, FALSE) : r \in RunSettings }
    /\ InitState

InitAbort ==
    /\ settings = SettingsOf(<<2, 1, 200, 50, 200, FALSE, 200, 60, FALSE>>,
                             "lines", TRUE, FALSE, FALSE)
    /\ InitState

\* the settings the two programs share: both infill kinds, short-distance flow = max flow
InitScript ==
    /\ settings \in { SettingsOf(<<2, 1, 200, 50, 200, FALSE, 200, 60, FALSE>>,
                                 p, TRUE, FALSE, FALSE) : p \in {"lines", "gyroid"} }
    /\ InitState

InitSections ==
    /\ settings \in { SettingsOf(<<2, 1, 200, 50, 200, FALSE, 200, 60, outer>>,
                                 "lines", TRUE, FALSE, FALSE) : outer \in BOOLEAN }
    /\ InitState

\* gradual speed: the feed follows the flow between 60 % and 200 % of the feed of the
\* line, for both infill kinds; and between 60 % and 90 % with every flow at 100 %
InitSpeed ==
    /\ settings \in { SettingsOf(<<2, 1, 200, 50, 200, TRUE, 200, 60, FALSE>>,
                                 "lines", TRUE, FALSE, FALSE),
                       SettingsOf(<<2, 1, 200, 50, 200, TRUE, 200, 60, FALSE>>,
                                 "gyroid", TRUE, FALSE, FALSE),
                       SettingsOf(<<2, 1, 100, 100, 100, TRUE, 90, 60, FALSE>>,
                                 "lines", TRUE, FALSE, FALSE) }
    /\ InitState

InitConfig ==
    /\ settings \in { SettingsOf(<<2, 1, 200, 50, 200, FALSE, 200, 60, FALSE>>,
                                 p, rel, ibw, conn) :
                        p \in PatternNames, rel \in BOOLEAN, ibw \in BOOLEAN,
                        conn \in BOOLEAN }
    /\ InitState

\* the checks before the loop without the one on connect infill lines
Start_no_connect_check ==
    /\ pc = "start"
    /\ LET abort == \/ settings.relativeextrusion = FALSE
                    \/ settings.infillbeforewalls = TRUE
                    \/ mfill_mode(settings.infillpattern) = 0
           reached434 == settings.relativeextrusion # FALSE /\ settings.infillbeforewalls # TRUE
       IN  /\ pc' = IF abort THEN "aborted" ELSE "run"
           /\ result' = IF abort THEN "none" ELSE result
           /\ infill_type' = IF reached434 THEN mfill_mode(settings.infillpattern)
                             ELSE infill_type
    /\ UNCHANGED <<settings, currentSection, lastPosition, perimeterSegments, current_feed,
                   data, orig, layer, lines, inInfill, last, script, outputFile>>

\* lines 413-446: the checks before the loop; `return None` leaves data as handed over
Start ==
    /\ pc = "start"
    /\ LET abort == \/ settings.relativeextrusion = FALSE
                    \/ settings.infillbeforewalls = TRUE
                    \/ mfill_mode(settings.infillpattern) = 0
                    \/ settings.connectinfill = TRUE
           reached434 == settings.relativeextrusion # FALSE /\ settings.infillbeforewalls # TRUE
       IN  /\ pc' = IF abort THEN "aborted" ELSE "run"
           /\ result' = IF abort THEN "none" ELSE result
           /\ infill_type' = IF reached434 THEN mfill_mode(settings.infillpattern)
                             ELSE infill_type
    /\ UNCHANGED <<settings, currentSection, lastPosition, perimeterSegments, current_feed,
                   data, orig, layer, lines, inInfill, last, script, outputFile>>

\* the number of input lines read so far
NRead == Len(Join(orig)) + Len(layer)

\* lines 610-611 for the layer that ends: data[data.index(layer)] = "\n".join(lines)
ClosedData == [Append(data, layer) EXCEPT ![IndexOf(data, layer)] = Join(lines)]

\* the move would start from the position before the first move, off the grid: programs
\* position the head before the first wall or infill extrusion
FromSentinel(line) ==
    /\ lastPosition = Sentinel
    /\ is_extrusion_line(line)
    /\ Collect(settings, ParserState, line).currentSection \in {INNER_WALL, OUTER_WALL, INFILL}

\* the effect of one pass of `for currentLine in lines` whose outcome is h; lines0 is
\* the list `lines` of the element of data the line belongs to
Apply(line, begins, lines0, h) ==
    /\ data' = IF begins THEN ClosedData ELSE data
    /\ orig' = IF begins THEN Append(orig, layer) ELSE orig
    /\ layer' = IF begins THEN <<line>> ELSE Append(layer, line)
    /\ inInfill' = IF begins THEN <<h.infill>> ELSE Append(inInfill, h.infill)
    \* line_index = lines.index(currentLine)
    /\ lines' = IF h.wrote /\ ~h.fault
                THEN [Append(lines0, <<line>>) EXCEPT ![IndexOf(lines0, <<line>>)] = h.entry]
                ELSE Append(lines0, <<line>>)
    /\ pc' = IF h.fault THEN "fault" ELSE "run"
    /\ currentSection' = h.st.currentSection
    /\ lastPosition' = h.st.lastPosition
    /\ perimeterSegments' = h.st.perimeterSegments
    /\ current_feed' = h.st.current_feed
    /\ last' = [op |-> IF h.fault THEN "fault" ELSE "line", line |-> line,
                own |-> Len(lines0) + 1, idx |-> IndexOf(lines0, <<line>>),
                from |-> lastPosition, section |-> currentSection,
                segs |-> perimeterSegments, infill |-> h.infill,
                wrote |-> h.wrote /\ ~h.fault, rewrote |-> h.rewrote /\ ~h.fault,
                entry |-> IF h.fault THEN <<>> ELSE h.entry,
                subs |-> IF h.fault THEN <<>> ELSE h.subs,
                \* the element of data that has just ended and the text made of it
                closed |-> IF begins THEN Len(data) + 1 ELSE 0,
                final_lines |-> IF begins THEN Join(lines) ELSE <<>>]

\* one pass of `for currentLine in lines`; a line that starts with ;LAYER: begins the
\* next element of data (the host hands over one element per layer), which ends the
\* pass of `for layer in data` for the element before it
ProcessLine(line) ==
    /\ pc = "run"
    /\ ~FromSentinel(line)
    /\ Apply(line, is_begin_layer_line(line) /\ layer # <<>>,
             IF is_begin_layer_line(line) /\ layer # <<>> THEN <<>> ELSE lines,
             HandleLine(settings, infill_type, ParserState, line))
    /\ UNCHANGED <<settings, infill_type, result>>

\* the end of data: the last layer is written back and data is returned
Finish ==
    /\ pc = "run"
    /\ pc' = "returned"
    /\ result' = "data"
    /\ data' = IF layer # <<>> THEN ClosedData ELSE data
    /\ orig' = IF layer # <<>> THEN Append(orig, layer) ELSE orig
    /\ layer' = <<>>
    /\ lines' = <<>>
    /\ inInfill' = <<>>
    /\ last' = IF layer # <<>>
               THEN [NoStep EXCEPT !.closed = Len(data) + 1, !.final_lines = Join(lines)]
               ELSE NoStep
    /\ UNCHANGED <<settings, infill_type, currentSection, lastPosition, perimeterSegments,
                   current_feed, script, outputFile>>

\* the locals of process_gcode; it has no current_feed to read
ScriptState ==
    [currentSection |-> script.currentSection, lastPosition |-> script.lastPosition,
     perimeterSegments |-> script.perimeterSegments, current_feed |-> [def |-> TRUE, v |-> 0]]

\* the effect of one pass of `for currentLine in gcodeFile` whose outcome is h
ScriptApply(h) ==
    /\ script' = [pc |-> IF h.fault THEN "fault" ELSE "run",
                  currentSection |-> h.st.currentSection,
                  lastPosition |-> h.st.lastPosition,
                  perimeterSegments |-> h.st.perimeterSegments,
                  section |-> script.currentSection]
    /\ outputFile' = IF h.fault THEN outputFile ELSE Append(outputFile, h.written)

\* one pass of `for currentLine in gcodeFile`; an exception has ended process_gcode for good
ScriptLine(line) ==
    IF script.pc = "run"
    THEN ScriptApply(process_gcode_line(ScriptSettings(settings), infill_type, ScriptState, line))
    ELSE UNCHANGED <<script, outputFile>>

\* the plug-in alone reads a line
Read(catalogue, max) ==
    \E line \in catalogue : NRead < max /\ ProcessLine(line) /\ UNCHANGED <<script, outputFile>>

\* the plug-in and the script read the same line
ReadBoth(catalogue, max) ==
    \E line \in catalogue : NRead < max /\ ProcessLine(line) /\ ScriptLine(line)

Next == Start \/ Read(Catalogue, MaxLines) \/ Finish

NextAbort == Start \/ Read(CatalogueAbort, MaxLines) \/ Finish

NextConfig == Start \/ Read(CatalogueConfig, MaxLinesConfig) \/ Finish

NextScript == Start \/ ReadBoth(CatalogueScript, MaxLines) \/ Finish

NextSections == Start \/ Read(CatalogueSections, MaxLinesSections) \/ Finish

NextTokens == Start \/ Read(CatalogueTokens, MaxLines) \/ Finish

NextSpeed == Start \/ Read(CatalogueSpeed, MaxLinesSpeed) \/ Finish

\* both infill kinds
Spec == Init /\ [][Next]_vars

\* linear infill, with a line that cannot be parsed
SpecAbort == InitAbort /\ [][NextAbort]_vars

\* every pattern name and every host setting
SpecConfig == InitConfig /\ [][NextConfig]_vars

\* the plug-in and the stand-alone script on the same lines, some with a comment
SpecScript == InitScript /\ [][NextScript]_vars

\* linear infill, walls of both kinds, with the inner or the outer wall as the one tested
SpecSections == InitSections /\ [][NextSections]_vars

\* both infill kinds, with a move that carries a Z field
SpecTokens == InitScript /\ [][NextTokens]_vars

\* gradual speed on, both infill kinds
SpecSpeed == InitSpeed /\ [][NextSpeed]_vars

-----------------------------------------------------------------------------
(* Properties *)

RECURSIVE SumSeq(_)
SumSeq(s) == IF s = <<>> THEN 0 ELSE Head(s) + SumSeq(Tail(s))

\* the last step handled an extrusion move in the INFILL branch (it may have faulted)
InfillMove == last.op \in {"line", "fault"} /\ last.infill /\ is_extrusion_line(last.line)

\* the last step rewrote an infill extrusion move
Rewritten == last.op = "line" /\ last.rewrote

\* C1: every line that was handled outside the INFILL branch and is not the infill-begin
\* marker stands in `lines` at its own position with exactly its input text
C1_FrameOutsideInfill ==
    \A i \in 1..Len(layer) :
        (~inInfill[i] /\ ~is_begin_infill_segment_line(layer[i])) => lines[i] = <<layer[i]>>

\* the configuration preconditions of a run, as the claims list them
SupportedNames == {"grid", "lines", "triangles", "trihexagon", "cubic", "tetrahedral",
                   "quarter_cubic", "cross", "cross_3d", "gyroid"}

PreconditionHolds ==
    /\ settings.relativeextrusion
    /\ ~settings.infillbeforewalls
    /\ settings.infillpattern \in SupportedNames
    /\ ~settings.connectinfill

Untouched0 ==
    /\ NRead = 0
    /\ data = <<>> /\ lines = <<>> /\ inInfill = <<>>
    /\ currentSection = NOTHING
    /\ lastPosition = Sentinel
    /\ ~perimeterSegments.def
    /\ ~current_feed.def

\* C2: when a configuration precondition is violated the run ends before any line is
\* processed: no line is read or classified, the parser state stays as initialised,
\* data is neither changed nor returned (execute returns None)
C2_ConfigAbort ==
    ~PreconditionHolds =>
        /\ pc \in {"start", "aborted"}
        /\ Untouched0
        /\ result # "data"
        /\ pc = "aborted" => result = "none"

\* a run that was ended by the last of the checks (connect infill lines)
C2_Witness ==
    /\ pc = "aborted" /\ result = "none"
    /\ settings.connectinfill
    /\ settings.relativeextrusion /\ ~settings.infillbeforewalls
    /\ settings.infillpattern \in SupportedNames

\* C3: the infill kind depends on the pattern name alone: seven names are LINEAR, three
\* are SMALL_SEGMENTS, any other name is unsupported and ends the run with no output
C3_PatternTable ==
    LET name == settings.infillpattern
        kind == IF name \in {"grid", "lines", "triangles", "trihexagon", "cubic",
                             "tetrahedral", "quarter_cubic"} THEN LINEAR
                ELSE IF name \in {"cross", "cross_3d", "gyroid"} THEN SMALL_SEGMENTS
                ELSE 0
    IN  /\ infill_type # -1 => infill_type = kind
        /\ pc \in {"run", "returned", "fault"} => infill_type = kind /\ kind # 0
        /\ (kind = 0 /\ pc # "start") => pc = "aborted" /\ result = "none" /\ Untouched0

\* a run with the pattern cubicsubdiv, every other setting as required, was ended
C3_Witness ==
    /\ pc = "aborted" /\ infill_type = 0
    /\ settings.infillpattern = "cubicsubdiv"
    /\ settings.relativeextrusion /\ ~settings.infillbeforewalls /\ ~settings.connectinfill

\* C4: a run is all-or-nothing: when it has ended early (a configuration check, or a
\* fault in the middle of the program) no element of data has been changed
C4_AllOrNothing == pc \in {"aborted", "fault"} => data = orig

\* C5: an infill extrusion move met while perimeterSegments is empty does not fault and
\* its line is left as it was
C5_EmptyPerimeterPassThrough ==
    (InfillMove /\ perimeterSegments.def /\ perimeterSegments.segs = <<>>)
        => (last.op = "line" /\ ~last.rewrote)

\* the move of the last step asks for the distance to the collected wall segments
QueriesDistance ==
    \/ infill_type = SMALL_SEGMENTS
    \/ /\ infill_type = LINEAR
       /\ get_points_distance(last.from, getXY(last.line))
            >= 2 * gradientDiscretizationLength(settings)

\* C6: a distance query against a collected wall segment whose endpoints are equal
\* does not fault
C6_ZeroLengthSegmentGuarded ==
    (/\ InfillMove
     /\ QueriesDistance
     /\ \E i \in 1..Len(perimeterSegments.segs) : distFaults(perimeterSegments.segs[i]))
        => last.op = "line"

\* the move of the last step: its extrusion value and its length
MoveE == LastVal(last.line, "E")

MoveLength == get_points_distance(last.from, getXY(last.line))

\* the sub-moves of the last step: where sub-move k starts and how long it is
SubStart(k) == IF k = 1 THEN last.from ELSE <<last.subs[k - 1].x, last.subs[k - 1].y>>

SubLength(k) == get_points_distance(SubStart(k), <<last.subs[k].x, last.subs[k].y>>)

\* the extrusion num/den of sub-move k is its share of the move's extrusion times a
\* multiplier in [lo/100, hi/100]; the share is the sub-move's length over the move's
\* for the sub-moves of a subdivided move, the whole for a move that is not subdivided
WithinFlows(k, lo, hi) ==
    LET sub == last.subs[k]
        part == IF sub.kind \in {"step", "closing"} THEN SubLength(k) ELSE 1
        whole == IF sub.kind \in {"step", "closing"} THEN MoveLength ELSE 1
    IN  /\ sub.den > 0
        /\ lo * MoveE * part * sub.den <= 100 * sub.num * whole
        /\ 100 * sub.num * whole <= hi * MoveE * part * sub.den

\* the E fields of the lines of a rewritten entry, summed
EmittedE(entry) ==
    SumSeq([i \in 1..Len(entry) |->
               IF Has(entry[i], "E") THEN LastVal(entry[i], "E") ELSE 0])

\* the numerators of the extrusions of the sub-moves, summed (they share a denominator)
ComputedNum == SumSeq([k \in 1..Len(last.subs) |-> last.subs[k].num])

SameDen == \A k \in 1..Len(last.subs) : last.subs[k].den = last.subs[1].den

\* the numbers of the model are the numbers of the code: every length is a whole number
\* of grid units (the square roots are exact) and no extrusion is rounded at a tie,
\* where the floating-point value of the code could fall on either side
GridExact ==
    /\ \A i \in 1..Len(perimeterSegments.segs) :
          IsSquare((perimeterSegments.segs[i].point1[1] - perimeterSegments.segs[i].point2[1])
                       * (perimeterSegments.segs[i].point1[1] - perimeterSegments.segs[i].point2[1])
                   + (perimeterSegments.segs[i].point1[2] - perimeterSegments.segs[i].point2[2])
                       * (perimeterSegments.segs[i].point1[2] - perimeterSegments.segs[i].point2[2]))
    /\ \A k \in 1..Len(last.subs) :
          /\ last.subs[k].den > 0
          /\ 2 * (last.subs[k].num % last.subs[k].den) # last.subs[k].den
          /\ last.subs[k].dist * last.subs[k].dist
                = (IF last.subs[k].kind \in {"step", "small"}
                   THEN dist2(perimeterSegments.segs[
                                 CHOOSE i \in 1..Len(perimeterSegments.segs) :
                                    \A j \in 1..Len(perimeterSegments.segs) :
                                       dist2(perimeterSegments.segs[i],
                                             middlePoint(Segment(SubStart(k),
                                                 <<last.subs[k].x, last.subs[k].y>>)))
                                       <= dist2(perimeterSegments.segs[j],
                                             middlePoint(Segment(SubStart(k),
                                                 <<last.subs[k].x, last.subs[k].y>>)))],
                              middlePoint(Segment(SubStart(k),
                                                  <<last.subs[k].x, last.subs[k].y>>)))
                   ELSE 0)

\* C7 as stated: on every path, the short un-subdivided move included, the multiplier
\* applied to the extrusion lies in [min_flow/100, max_flow/100]
C7_FlowWithinMinMax ==
    Rewritten =>
        \A k \in 1..Len(last.subs) : WithinFlows(k, settings.min_flow, settings.max_flow)

\* C7: the multiplier of a stepped sub-move, of the closing sub-move and of a
\* small-segment move lies in [min_flow/100, max_flow/100]; the multiplier of a short
\* move that is not subdivided is the short-distance flow, whatever min and max are
C7_FlowWithinMinMaxOrLink ==
    Rewritten =>
        \A k \in 1..Len(last.subs) :
            IF last.subs[k].kind = "short"
            THEN WithinFlows(k, settings.link_flow, settings.link_flow)
            ELSE WithinFlows(k, settings.min_flow, settings.max_flow)

\* a subdivided move with a sub-move whose multiplier is strictly between min and max
C7_Witness ==
    /\ Rewritten
    /\ \E k \in 1..Len(last.subs) :
          /\ last.subs[k].kind = "step"
          /\ ~WithinFlows(k, settings.min_flow, settings.min_flow)
          /\ ~WithinFlows(k, settings.max_flow, settings.max_flow)
          /\ WithinFlows(k, settings.min_flow, settings.max_flow)

\* C8 as stated: with max flow and min flow at 100 % the extrusion emitted in place of
\* an infill move, summed over its sub-moves, equals the move's extrusion value
C8_NoOpAtHundred ==
    (settings.max_flow = 100 /\ settings.min_flow = 100 /\ Rewritten)
        => EmittedE(last.entry) = MoveE

\* C8: with max flow, min flow and the short-distance flow at 100 % the extrusions
\* computed for the sub-moves of an infill move sum to the move's extrusion value; each
\* is emitted rounded to five decimals, so the emitted sum is within half a unit of the
\* fifth decimal per sub-move of it
C8_NoOpAtHundredAllFlows ==
    (/\ settings.max_flow = 100 /\ settings.min_flow = 100 /\ settings.link_flow = 100
     /\ Rewritten)
        => /\ SameDen
           /\ ComputedNum = MoveE * last.subs[1].den
           /\ 2 * Abs(EmittedE(last.entry) - MoveE) <= Len(last.subs)

\* a subdivided move under 100 % flows whose emitted sum differs from its extrusion
\* value by the rounding of the sub-moves
C8_Witness ==
    /\ settings.max_flow = 100 /\ settings.min_flow = 100 /\ settings.link_flow = 100
    /\ Rewritten
    /\ Len(last.subs) > 1
    /\ EmittedE(last.entry) # MoveE

\* C9: in small-segment mode an infill extrusion move at a distance of at least the
\* gradient thickness from every collected wall segment is emitted with its extrusion
\* multiplied by min_flow / 100
C9_SmallFarMinFlow ==
    (/\ infill_type = SMALL_SEGMENTS
     /\ InfillMove /\ last.op = "line"
     /\ perimeterSegments.segs # <<>>
     /\ min_distance_from_segment(Segment(last.from, getXY(last.line)),
                                  perimeterSegments.segs) >= Thickness(settings))
        => EmittedE(lines[last.own]) = Round5(MoveE * settings.min_flow, 100)

Steps == MoveLength \div gradientDiscretizationLength(settings)

\* the lines of a rewritten entry that carry sub-move k (a feed line may come first)
SubEntry(k) == last.entry[Len(FeedPrefix(last.line)) + k]

FlowNum(d) == SteppedSub(settings, 1200, d, <<0, 0>>, 100, 2 * Thickness(settings)).fnum

FlowDen == SteppedSub(settings, 1200, 0, <<0, 0>>, 100, 2 * Thickness(settings)).fden

\* C12: with min flow <= max flow the flow multiplier is max_flow / 100 at distance 0 and
\* min_flow / 100 at the gradient thickness, does not increase with the distance, and is
\* min_flow / 100 at every distance from the thickness on (the settings do not change in
\* a run: the function is examined as the run starts); it is the multiplier of every
\* stepped sub-move that is emitted
C12_FlowOfDistance ==
    settings.min_flow <= settings.max_flow =>
        /\ pc = "start" =>
               /\ FlowDen > 0
               /\ 100 * FlowNum(0) = settings.max_flow * FlowDen
               /\ 100 * FlowNum(Thickness(settings)) = settings.min_flow * FlowDen
               /\ \A d1 \in 0..MaxDist : \A d2 \in d1..MaxDist : FlowNum(d1) >= FlowNum(d2)
               /\ \A d \in Thickness(settings)..MaxDist :
                     100 * FlowNum(d) = settings.min_flow * FlowDen
        /\ (infill_type = LINEAR /\ Rewritten) =>
               \A k \in 1..Len(last.subs) :
                   last.subs[k].kind = "step" =>
                       /\ last.subs[k].dist \in 0..MaxDist
                       /\ last.subs[k].fnum = FlowNum(last.subs[k].dist)
                       /\ last.subs[k].fden = FlowDen
                       /\ last.subs[k].num * MoveLength * FlowDen
                             = MoveE * SubLength(k) * FlowNum(last.subs[k].dist) * last.subs[k].den

\* a subdivided move with a stepped sub-move inside the gradient, its multiplier strictly
\* between min and max, and one beyond it, at min
C12_Witness ==
    /\ infill_type = LINEAR /\ Rewritten
    /\ settings.min_flow < settings.max_flow
    /\ Len(last.subs) = 3
    /\ last.subs[1].dist > 0 /\ last.subs[1].dist < Thickness(settings)
    /\ 100 * last.subs[1].fnum < settings.max_flow * last.subs[1].fden
    /\ 100 * last.subs[1].fnum > settings.min_flow * last.subs[1].fden
    /\ last.subs[2].kind = "step" /\ last.subs[2].dist >= Thickness(settings)
    /\ 100 * last.subs[2].fnum = settings.min_flow * last.subs[2].fden

\* C13: perimeterSegments is a list from the start of the run, so that no line faults for
\* want of it; a layer marker empties it, and any other line leaves it as it was or appends
\* one segment to it
C13_PerimeterSinceLayer ==
    /\ last.op = "fault" => last.segs.def
    /\ last.op = "line" =>
          IF is_begin_layer_line(last.line)
          THEN perimeterSegments.segs = <<>>
          ELSE \/ perimeterSegments.segs = last.segs.segs
               \/ /\ Len(perimeterSegments.segs) = Len(last.segs.segs) + 1
                  /\ SubSeq(perimeterSegments.segs, 1, Len(last.segs.segs)) = last.segs.segs

\* the line carries a move command with X and Y fields
IsMove(line) == (Has(line, "G0") \/ Has(line, "G1")) /\ Has(line, "X") /\ Has(line, "Y")

\* the input lines read so far, in order
History == Join(orig) \o layer

\* C14: lastPosition is the sentinel until the first move line; after a line with G0 or G1
\* and X and Y fields (in any section, with or without E, rewritten or subdivided or not)
\* it is the (X, Y) of that line; any other line leaves it as it was
C14_LastPosition ==
    /\ (\A i \in 1..Len(History) : ~IsMove(History[i])) => lastPosition = Sentinel
    /\ last.op = "line" =>
          lastPosition = IF IsMove(last.line)
                         THEN <<ParseCoord(FirstVal(last.line, "X")),
                                ParseCoord(FirstVal(last.line, "Y"))>>
                         ELSE last.from

\* a subdivided infill move whose last stepped sub-move ends short of the target: the
\* position is the target of the line, not the end of a sub-move
C14_Witness ==
    /\ Rewritten /\ Len(last.subs) = 3
    /\ SubLength(3) > 0
    /\ lastPosition = getXY(last.line)
    /\ lastPosition # <<last.subs[2].x, last.subs[2].y>>
    /\ lastPosition # last.from

\* C15: the text written for a line is written at the position of that line in its
\* layer, and the text of a layer at the position of that layer in data, so that the
\* output keeps the order of the input, also among lines or layers of the same text
C15_OwnPosition ==
    /\ Len(lines) = Len(layer)
    /\ (last.op = "line" /\ last.wrote) => lines[last.own] = last.entry
    /\ Len(data) = Len(orig)
    /\ last.closed # 0 => data[last.closed] = last.final_lines

\* C16: a layer marker leaves the section as it was, whatever it was; all it does is
\* empty perimeterSegments
C16_LayerKeepsSection ==
    (last.op = "line" /\ is_begin_layer_line(last.line))
        => /\ currentSection = last.section
           /\ perimeterSegments = [def |-> TRUE, segs |-> <<>>]
           /\ lastPosition = last.from

Boundary == IF settings.test_outer_wall THEN OUTER_WALL ELSE INNER_WALL

\* the last line is a G1 move with X, Y and E fields met in the section that is collected
BoundaryMove ==
    /\ last.section = Boundary
    /\ Has(last.line, "G1") /\ Has(last.line, "X") /\ Has(last.line, "Y") /\ Has(last.line, "E")

SubDistance(k) ==
    min_distance_from_segment(Segment(SubStart(k), <<last.subs[k].x, last.subs[k].y>>),
                              perimeterSegments.segs)

\* the last step subdivided a move of linear mode
SubdividedMove ==
    infill_type = LINEAR /\ Rewritten /\ ~HasSemicolon(last.line) /\ Steps >= 2

\* C20 as stated: the extrusion of each stepped sub-move is E / steps, steps being
\* floor(segmentLength / stepLength), times the flow multiplier at the distance from the
\* midpoint of the sub-move to the nearest collected wall segment
C20_StepShareOfFloor ==
    SubdividedMove =>
        \A k \in 1..Steps :
            /\ last.subs[k].dist = SubDistance(k)
            /\ LastVal(SubEntry(k), "E")
                  = Round5(MoveE * FlowNum(SubDistance(k)), Steps * FlowDen)

\* C20: the extrusion of each stepped sub-move is E * stepLength / segmentLength (E
\* divided by the quotient segmentLength / stepLength, not rounded down) times the flow
\* multiplier at the distance from the midpoint of the sub-move to the nearest collected
\* wall segment; that is E / steps times the multiplier when the length of the move is a
\* whole number of steps
C20_StepShareOfLength ==
    SubdividedMove =>
        \A k \in 1..Steps :
            /\ last.subs[k].dist = SubDistance(k)
            /\ last.subs[k].num * MoveLength * FlowDen
                  = MoveE * gradientDiscretizationLength(settings) * FlowNum(SubDistance(k))
                      * last.subs[k].den
            /\ LastVal(SubEntry(k), "E")
                  = Round5(MoveE * gradientDiscretizationLength(settings)
                              * FlowNum(SubDistance(k)),
                           MoveLength * FlowDen)
            /\ MoveLength = Steps * gradientDiscretizationLength(settings) =>
                  last.subs[k].num * Steps * FlowDen
                      = MoveE * FlowNum(SubDistance(k)) * last.subs[k].den

\* a move of two steps and a half: the stepped sub-moves carry two fifths of E each,
\* times their multipliers, not one half
C20_Witness ==
    /\ SubdividedMove
    /\ Steps = 2 /\ 2 * MoveLength = 5 * gradientDiscretizationLength(settings)
    /\ settings.min_flow < settings.max_flow
    /\ LastVal(SubEntry(1), "E") = Round5(2 * MoveE * FlowNum(SubDistance(1)), 5 * FlowDen)
    /\ LastVal(SubEntry(1), "E") # Round5(MoveE * FlowNum(SubDistance(1)), 2 * FlowDen)

\* a line that one of the marker tests recognizes
Marker(line) ==
    \/ is_begin_layer_line(line) \/ is_begin_inner_wall_line(line)
    \/ is_begin_outer_wall_line(line) \/ is_begin_infill_segment_line(line)

\* the script has handled every line read so far, the last one included
ScriptDone == script.pc = "run" /\ NRead > 0 /\ Len(outputFile) = NRead

\* a line with a ";" that is no marker, met by the plug-in in INFILL: the section is
\* NOTHING afterwards and the line stands in `lines` as it was read
PluginCommentPassThrough ==
    (/\ last.op = "line" /\ last.section = INFILL
     /\ HasSemicolon(last.line) /\ ~Marker(last.line))
        => /\ currentSection = NOTHING
           /\ lines[last.own] = <<last.line>>

\* C17: a line with a ";" that is no marker, met in INFILL, sets the section to NOTHING
\* and is emitted as it was read and nothing else with it, also when it is an extrusion
\* move or carries a feed field; in the plug-in and in the stand-alone script
C17_CommentPassThrough ==
    /\ PluginCommentPassThrough
    /\ (/\ ScriptDone /\ script.section = INFILL
        /\ HasSemicolon(History[NRead]) /\ ~Marker(History[NRead]))
           => /\ script.currentSection = NOTHING
              /\ outputFile[NRead] = << History[NRead] >>

\* C21: in linear mode an infill extrusion move shorter than two steps of the gradient,
\* a move of length zero included, does not fault and is rewritten as exactly one line
\* whose extrusion is the extrusion of the move times the short-distance flow
C21_ShortMoveRewritten ==
    (/\ InfillMove
     /\ infill_type = LINEAR
     /\ MoveLength < 2 * gradientDiscretizationLength(settings))
        => /\ last.op = "line"
           /\ last.rewrote
           /\ Len(last.entry) = 1
           /\ Len(last.subs) = 1
           /\ last.subs[1].kind = "short"
           /\ last.subs[1].num * 100 = MoveE * settings.link_flow * last.subs[1].den
           /\ LastVal(last.entry[1], "E") = Round5(MoveE * settings.link_flow, 100)

\* C22: with gradual speed on and min over-speed <= max over-speed, every feed written
\* on a sub-move of a rewritten infill move (stepped, closing, small-segment) lies between
\* current_feed * min over-speed and current_feed * max over-speed
C22_FeedWithinOverSpeed ==
    (/\ Rewritten
     /\ settings.gradual_speed
     /\ settings.min_over_speed <= settings.max_over_speed)
        => \A k \in 1..Len(last.subs) :
              last.subs[k].feed >= 0 =>
                 /\ current_feed.v * settings.min_over_speed <= 100 * last.subs[k].feed
                 /\ 100 * last.subs[k].feed <= current_feed.v * settings.max_over_speed

\* C23: the closing sub-move of a subdivided move carries
\* (remaining length / length of the move) * E * max_flow / 100, rounded to 5 places,
\* whatever its distance to the wall segments
C23_ClosingExtrusion ==
    (Rewritten /\ infill_type = LINEAR /\ Len(last.subs) > 1) =>
        /\ last.subs[Len(last.subs)].kind = "closing"
        /\ \A k \in 1..(Len(last.subs) - 1) : last.subs[k].kind = "step"
        /\ last.subs[Len(last.subs)].num * MoveLength * 100
              = SubLength(Len(last.subs)) * MoveE * settings.max_flow
                    * last.subs[Len(last.subs)].den
        /\ LastVal(last.entry[Len(last.entry)], "E")
              = Round5(SubLength(Len(last.subs)) * MoveE * settings.max_flow, MoveLength * 100)

\* a closing sub-move of non-zero length that lies at gradient_thickness or more from
\* every wall segment, where a stepped sub-move takes min_flow, min_flow below max_flow
C23_Witness ==
    /\ Rewritten /\ infill_type = LINEAR /\ Len(last.subs) > 1
    /\ settings.min_flow < settings.max_flow
    /\ SubLength(Len(last.subs)) > 0
    /\ min_distance_from_segment(
           Segment(SubStart(Len(last.subs)),
                   <<last.subs[Len(last.subs)].x, last.subs[Len(last.subs)].y>>),
           last.segs.segs) >= Thickness(settings)
    /\ LastVal(last.entry[Len(last.entry)], "E") > 0

\* the fields of a line other than E and F, as <<letter, value>>, in their order
OtherTokens(line) ==
    LET keep == SelectSeq([i \in 1..Len(line) |-> <<line[i][1], line[i][2]>>],
                          LAMBDA t : t[1] \notin {"E", "F"})
    IN  keep

\* every element of a occurs in b, in the order of a
RECURSIVE InOrder(_, _)
InOrder(a, b) ==
    IF a = <<>> THEN TRUE
    ELSE IF b = <<>> THEN FALSE
    ELSE IF Head(a) = Head(b) THEN InOrder(Tail(a), Tail(b))
    ELSE InOrder(a, Tail(b))

\* C24: on every rewrite path every field of the input line other than E and F stands
\* in the text written for that line, in the same relative order
C24_TokensPreserved ==
    Rewritten => InOrder(OtherTokens(last.line), OtherTokens(Join(last.entry)))

\* the value of the last F field of a sequence of fields, -1 when it has none
LastFeedOf(toks) ==
    IF \E i \in 1..Len(toks) : toks[i][1] = "F"
    THEN toks[CHOOSE i \in 1..Len(toks) :
                 toks[i][1] = "F" /\ \A j \in (i + 1)..Len(toks) : toks[j][1] # "F"][2]
    ELSE -1

\* the feed rate in force after a sequence of lines
FeedInForce(text) == LastFeedOf(Join(text))

\* the input lines before the line of the last step, and what stands in their place
InputBefore == SubSeq(History, 1, Len(History) - 1)

OutputBefore == Join(data) \o Join(SubSeq(lines, 1, Len(lines) - 1))

\* C25: with gradual speed on, at every line handled outside the INFILL branch the feed
\* rate in force (the last F field before the line) is the same in the output as in
\* the input
C25_FeedInForceOutsideInfill ==
    (last.op = "line" /\ ~last.infill /\ settings.gradual_speed)
        => FeedInForce(OutputBefore) = FeedInForce(InputBefore)

\* C26: in small-segment mode every input line yields exactly one output line, so the
\* output has as many lines as the input; an entry of more than one line is written
\* for a subdivided move of the linear mode alone
C26_OneLinePerLine ==
    /\ (last.op = "line" /\ last.wrote /\ Len(last.entry) # 1)
          => (infill_type = LINEAR /\ Len(last.subs) > 1)
    /\ (infill_type = SMALL_SEGMENTS /\ pc \in {"run", "returned"})
          => Len(Join(data)) + Len(Join(lines)) = Len(History)

\* the ;TYPE: markers
TypeMarkers == {";TYPE:WALL-INNER", ";TYPE:WALL-OUTER", ";TYPE:FILL", ";TYPE:SKIN"}

\* the letter of the last ;TYPE: marker among the lines of text, "" when it has none
LastTypeOf(text) ==
    IF \E i \in 1..Len(text) : text[i][1][1] \in TypeMarkers
    THEN text[CHOOSE i \in 1..Len(text) :
                 /\ text[i][1][1] \in TypeMarkers
                 /\ \A j \in (i + 1)..Len(text) : text[j][1][1] \notin TypeMarkers][1][1]
    ELSE ""

\* the last step appended a segment to perimeterSegments
Appended ==
    /\ last.op = "line"
    /\ ~is_begin_layer_line(last.line)
    /\ Len(perimeterSegments.segs) = Len(last.segs.segs) + 1

\* C27: a segment is appended only for a move between a begin marker of the configured
\* wall and the next ;TYPE: marker of any kind: the last ;TYPE: marker before the move
\* is the marker of the configured wall
C27_CollectedInsideWall ==
    Appended =>
        LastTypeOf(InputBefore) = (IF settings.test_outer_wall THEN ";TYPE:WALL-OUTER"
                                   ELSE ";TYPE:WALL-INNER")

\* the move of the last step came to a place where the rewrite reads current_feed: a
\* sub-move of a subdivided move, or a small-segment move nearer than gradient_thickness
ReadsFeed ==
    /\ InfillMove
    /\ last.segs.def
    /\ ~min_distance_faults(Segment(last.from, getXY(last.line)), last.segs.segs)
    /\ \/ infill_type = LINEAR /\ MoveLength >= 2 * gradientDiscretizationLength(settings)
       \/ /\ infill_type = SMALL_SEGMENTS
          /\ min_distance_from_segment(Segment(last.from, getXY(last.line)), last.segs.segs)
                < Thickness(settings)

\* C28: whenever the rewrite of an infill extrusion move reads current_feed, the line or
\* an earlier line of an INFILL section has set it
C28_FeedSetBeforeRead ==
    ReadsFeed => (current_feed.def \/ (Has(last.line, "F") /\ Has(last.line, "G1")))

\* the extrusion moves among the lines of text, each as <<X, Y, E>>
MovesOf(text) ==
    LET moves == SelectSeq(text, LAMBDA l : Has(l, "G1") /\ Has(l, "X") /\ Has(l, "Y")
                                             /\ Has(l, "E"))
    IN  [i \in 1..Len(moves) |->
            <<FirstVal(moves[i], "X"), FirstVal(moves[i], "Y"), LastVal(moves[i], "E")>>]

\* C29: on the same lines, with the inner wall tested, gradual speed off and the
\* short-distance flow equal to max_flow, the plug-in and the stand-alone script end
\* with an exception on the same line or on none, write the same extrusion moves with
\* the same extrusion values, and keep the same section, position and wall segments
\* after every line
C29_VariantsAgree ==
    pc \in {"run", "fault"} =>
        /\ (pc = "fault") = (script.pc = "fault")
        /\ pc = "run" =>
              /\ script.currentSection = currentSection
              /\ script.lastPosition = lastPosition
              /\ script.perimeterSegments = perimeterSegments
              /\ MovesOf(Join(outputFile)) = MovesOf(Join(data) \o Join(lines))

=============================================================================
